---- MODULE Spec2Model ----
(***************************************************************************)
(* A model of the Uno rules engine: cards.py (Card, Pile, Deck),           *)
(* players.py (Player, Group, State) and main.py (setup_game,              *)
(* initial_card, turn_0, turn, game, match).                               *)
(*                                                                         *)
(* Python's None is written NoNumber (-1) for Card.number, NoAction        *)
(* ("none") for Card.action, NoIndex (-1) for Group.player_number and      *)
(* NoPlayer (0) for Group.current_player.  Player objects are the ids      *)
(* 1..NumPlayers; hands, points and names are their fields.  A card is the *)
(* record of its three attributes (Card.__eq__ compares exactly these).    *)
(* An uncaught exception ends the process: error names it and pc becomes   *)
(* "crashed".                                                              *)
(***************************************************************************)
EXTENDS Integers, Sequences, FiniteSets, TLC

\* ---------------------------------------------------------------- bounds
\* cards dealt to each player (7 in cards.py:257)
DealSize == 1
\* number of players typed in setup_group
NumPlayers == 2
\* the most players of a group whose round is entered half way
MaxPlayers == 3
\* rounds of a match the model plays
MaxRounds == 1
\* the most players of a group whose cursor is moved on its own
GroupMax == 4

\* ------------------------------------------------------------- constants
NoNumber == -1
NoIndex == -1
NoPlayer == 0
NoAction == "none"
WinningPoints == 500

VARIABLES
  deck,            \* Deck.cards of the game's deck, top = last element
  discard,         \* Pile.cards of the discard pile, top = last element
  hands,           \* hands[p]: Player.hand.cards of player p
  points,          \* points[p]: Player.points
  names,           \* names[p]: Player.name, as its rank in string order
  players,         \* Group.players, a sequence of player ids
  player_number,   \* Group.player_number
  current_player,  \* Group.current_player
  turn_order,      \* State.turn_order
  skip,            \* State.skip
  forced_draw,     \* State.forced_draw
  current_card,    \* the card an operation was last given (match's current_card)
  old,             \* the State before the last State.update
  card_playable,   \* the value Player.playable_card last returned
  card_number,     \* turn's card_number: <<n>> for the number n typed last at
                   \* "Choose a card by number", <<>> when the prompt was not reached
  standings,       \* the list Group.standings last returned
  round,           \* rounds set up since the initial state
  event,           \* what the last step did, named after the message printed for it
  error,           \* the uncaught exception, "none" while the process runs
  pc               \* the function the process is about to run

vars == <<deck, discard, hands, points, names, players, player_number,
          current_player, turn_order, skip, forced_draw, current_card, old,
          card_playable, card_number, standings, round, event, error, pc>>

\* ------------------------------------------------------------ cards.Card
Card(colour, number, action) ==
  [colour |-> colour, number |-> number, action |-> action]

Wild == Card("W", NoNumber, NoAction)

WildDrawFour == Card("W", NoNumber, "+4")

\* the value before any card was given
NoCard == Card("none", NoNumber, NoAction)

Colours == {"R", "G", "B", "Y"}

\* Card.value with "rev" missing from the tuple of the actions worth 20
CardValueReverseFifty(card) ==
  IF card.number # NoNumber THEN card.number
  ELSE IF card.action \in {"+2", "skip"} THEN 20
  ELSE 50

\* Card.value
CardValue(card) ==
  IF card.number # NoNumber THEN card.number
  ELSE IF card.action \in {"+2", "rev", "skip"} THEN 20
  ELSE 50

\* Card.__lt__: the three keys after the replacement of "W" by "Z", of a
\* missing number by 10 and of a missing action by "+", as their ranks in
\* Python's order of strings and integers
ColourKey(colour) ==
  CASE colour = "B" -> 1
    [] colour = "G" -> 2
    [] colour = "R" -> 3
    [] colour = "Y" -> 4
    [] OTHER -> 5

NumberKey(number) == IF number = NoNumber THEN 10 ELSE number

\* the rank of the actions with a missing action replaced by a text after
\* "skip"
ActionKeyMissingLast(action) ==
  CASE action = NoAction -> 5
    [] action = "+2" -> 1
    [] action = "+4" -> 2
    [] action = "rev" -> 3
    [] OTHER -> 4

ActionKey(action) ==
  CASE action = NoAction -> 0
    [] action = "+2" -> 1
    [] action = "+4" -> 2
    [] action = "rev" -> 3
    [] OTHER -> 4

CardLt(a, b) ==
  IF ColourKey(a.colour) # ColourKey(b.colour)
    THEN ColourKey(a.colour) < ColourKey(b.colour)
  ELSE IF NumberKey(a.number) # NumberKey(b.number)
    THEN NumberKey(a.number) < NumberKey(b.number)
  ELSE IF ActionKey(a.action) # ActionKey(b.action)
    THEN ActionKey(a.action) < ActionKey(b.action)
  ELSE FALSE

\* ------------------------------------------------------------ cards.Pile
Top(cards) == cards[Len(cards)]

\* Pile.value
RECURSIVE PileValue(_)
PileValue(cards) ==
  IF cards = <<>> THEN 0 ELSE CardValue(Head(cards)) + PileValue(Tail(cards))

\* Pile.add with quantity 1: a wild card is appended as a copy, which has the
\* same attributes
PileAdd(cards, card) == Append(cards, card)

\* Pile.add with a quantity
RECURSIVE PileAddQuantity(_, _, _)
PileAddQuantity(cards, card, quantity) ==
  IF quantity = 0 THEN cards
  ELSE PileAddQuantity(PileAdd(cards, card), card, quantity - 1)

\* Pile.remove: list.remove drops the first card equal to the given one
RECURSIVE PileRemove(_, _)
PileRemove(cards, card) ==
  IF cards = <<>> THEN <<>>
  ELSE IF Head(cards) = card THEN Tail(cards)
  ELSE <<Head(cards)>> \o PileRemove(Tail(cards), card)

RECURSIVE InsertSorted(_, _)
InsertSorted(sorted, card) ==
  IF sorted = <<>> THEN <<card>>
  ELSE IF CardLt(card, Head(sorted)) THEN <<card>> \o sorted
  ELSE <<Head(sorted)>> \o InsertSorted(Tail(sorted), card)

\* Pile.sort: list.sort under Card.__lt__ (stable)
RECURSIVE PileSort(_)
PileSort(cards) ==
  IF cards = <<>> THEN <<>>
  ELSE InsertSorted(PileSort(SubSeq(cards, 1, Len(cards) - 1)), Top(cards))

\* the cards of a pile as a multiset: how often each card occurs
CountOf(cards, card) == Cardinality({i \in 1..Len(cards) : cards[i] = card})

\* random.shuffle: every ordering of the same cards
Shuffles(cards) ==
  LET perms == Permutations(1..Len(cards))
  IN  {[i \in 1..Len(cards) |-> cards[p[i]]] : p \in perms}

\* --------------------------------------------------------- players.Player
\* Player.draw: num cards from the top of the deck into the hand, one by one;
\* list.pop on an empty list raises IndexError after the cards drawn so far
RECURSIVE PlayerDraw(_, _, _)
PlayerDraw(hand, dk, num) ==
  IF num = 0 THEN [hand |-> hand, deck |-> dk, error |-> "none"]
  ELSE IF dk = <<>>
    THEN [hand |-> hand, deck |-> dk, error |-> "IndexError: pop from empty list"]
  ELSE PlayerDraw(PileAdd(hand, Top(dk)), SubSeq(dk, 1, Len(dk) - 1), num - 1)

\* attribute_matches as i == j, two missing attributes being a match
AttributeMatchesMissing(card, top) ==
  \/ card.colour = top.colour
  \/ card.number = top.number
  \/ card.action = top.action

\* the comprehension attribute_matches of Player.playable_card holds a True:
\* i == j is not None over (colour, number, action)
AttributeMatches(card, top) ==
  \/ card.colour = top.colour
  \/ card.number = top.number /\ top.number # NoNumber
  \/ card.action = top.action /\ top.action # NoAction

\* the comprehension colour_matches of Player.playable_card holds a True
ColourMatches(hand, top) == \E i \in 1..Len(hand) : hand[i].colour = top.colour

\* Player.playable_card that finds every card playable
PlayableCardAlways(card, hand, dp) == TRUE

\* Player.playable_card
PlayableCard(card, hand, dp) ==
  IF card = Wild \/ AttributeMatches(card, Top(dp)) THEN TRUE
  ELSE IF card = WildDrawFour /\ ~ColourMatches(hand, Top(dp)) THEN TRUE
  ELSE FALSE

\* Player.playable_hand
PlayableHand(hand, dp) == \E i \in 1..Len(hand) : PlayableCard(hand[i], hand, dp)

\* what the player may type at the colour prompt; "X" stands for every text
\* the colour setter refuses
TypedColours == {"R", "G", "W", "X"}

\* the texts typed at one colour prompt, up to the first the setter accepts
ColourInputs ==
  {<<c>> : c \in TypedColours \ {"X"}} \cup {<<"X", c>> : c \in TypedColours \ {"X"}}

\* the texts typed when the colour prompt is reached, none when it is not
Prompted(reached) == IF reached THEN ColourInputs ELSE {<<>>}

\* Card.colour setter: accepts R, G, B, Y and W
SetterAccepts(colour) == colour \in {"R", "G", "B", "Y", "W"}

\* Card.wild_colour: the loop reads a text, assigns it to the colour and
\* breaks when the setter did not raise ValueError
RECURSIVE WildColour(_, _)
WildColour(card, typed) ==
  IF typed = <<>> THEN card
  ELSE IF SetterAccepts(Head(typed)) THEN [card EXCEPT !.colour = Head(typed)]
  ELSE WildColour(card, Tail(typed))

\* Player.play: the card leaves the hand for the top of the discard pile and
\* a top of colour W has its colour chosen
PlayerPlay(hand, dp, card, typed) ==
  LET added == PileAdd(dp, card)
      top == Top(added)
  IN  [hand |-> PileRemove(hand, card),
       discard |-> IF top.colour = "W"
                     THEN [added EXCEPT ![Len(added)] = WildColour(top, typed)]
                     ELSE added]

\* Player.draw_and_offer; accept is the answer to "do you want to play it?"
DrawAndOffer(hand, dk, dp, accept, typed) ==
  LET d == PlayerDraw(hand, dk, 1)
  IN  IF d.error # "none"
        THEN [hand |-> d.hand, deck |-> d.deck, discard |-> dp,
              played |-> NoCard, error |-> d.error, finished |-> TRUE]
      ELSE IF PlayableCard(Top(dk), d.hand, dp) /\ accept
        THEN LET p == PlayerPlay(d.hand, dp, Top(dk), typed)
             IN  [hand |-> p.hand, deck |-> d.deck, discard |-> p.discard,
                  played |-> Top(dk), error |-> "none", finished |-> TRUE]
      ELSE [hand |-> d.hand, deck |-> d.deck, discard |-> dp,
            played |-> NoCard, error |-> "none", finished |-> TRUE]

\* ---------------------------------------------------------- players.State
\* State.neutralise that leaves forced_draw as it was
NeutraliseKeepsDraw(st) == [st EXCEPT !.skip = 0]

\* State.neutralise
Neutralise(st) == [st EXCEPT !.skip = 0, !.forced_draw = 0]

\* int(card.action[1:]) for the actions "+2" and "+4"
ActionNumber(action) == IF action = "+2" THEN 2 ELSE 4

\* State.update whose Skip branch leaves forced_draw as it was
StateUpdateKeepsDraw(st, card) ==
  IF card.action = "rev"
    THEN Neutralise([st EXCEPT !.turn_order = st.turn_order * (-1)])
  ELSE IF card.action = "skip"
    THEN [st EXCEPT !.skip = 1]
  ELSE IF card.action \in {"+2", "+4"}
    THEN [st EXCEPT !.skip = 1, !.forced_draw = ActionNumber(card.action)]
  ELSE Neutralise(st)

\* State.update
StateUpdate(st, card) ==
  IF card.action = "rev"
    THEN Neutralise([st EXCEPT !.turn_order = st.turn_order * (-1)])
  ELSE IF card.action = "skip"
    THEN [st EXCEPT !.skip = 1, !.forced_draw = 0]
  ELSE IF card.action \in {"+2", "+4"}
    THEN [st EXCEPT !.skip = 1, !.forced_draw = ActionNumber(card.action)]
  ELSE Neutralise(st)

\* the State object as a record
TheState == [turn_order |-> turn_order, skip |-> skip, forced_draw |-> forced_draw]

\* State()
NewState == [turn_order |-> 1, skip |-> 0, forced_draw |-> 0]

\* ---------------------------------------------------------- players.Group
Min(a, b) == IF a < b THEN a ELSE b

\* Group.size
Size == Len(players)

\* Group.initial that starts with the last player whatever the turn order
GroupInitialLast(order, size) == size - 1

\* Group.initial that starts with the first player whatever the turn order
GroupInitialFirst(order, size) == 0

\* Group.initial: the new player_number
GroupInitial(order, size) == Min(order, 0) % size

\* Group.next that steps forward whatever the turn order
GroupNextForward(number, order, size) == (number + 1) % size

\* Group.next: the new player_number
GroupNext(number, order, size) == (number + order) % size

\* list.index
RECURSIVE IndexOf(_, _)
IndexOf(seq, x) == IF Head(seq) = x THEN 0 ELSE 1 + IndexOf(Tail(seq), x)

\* Group.winner_first that moves the winner alone to the front
RotateLeftWinnerOnly(seq, pos) ==
  <<seq[pos + 1]>> \o SubSeq(seq, 1, pos) \o SubSeq(seq, pos + 2, Len(seq))

\* Group.winner_first: pos times, the first player is popped and added last
RECURSIVE RotateLeft(_, _)
RotateLeft(seq, pos) ==
  IF pos = 0 THEN seq ELSE RotateLeft(Append(Tail(seq), Head(seq)), pos - 1)

\* Group.winner_first that leaves the players as they are
WinnerFirstKeepsOrder(group, winner) == group

WinnerFirst(group, winner) == RotateLeft(group, IndexOf(group, winner))

\* Group.give_points: the points after the winner got the value of every other
\* player's hand
RECURSIVE SumValues(_, _, _)
SumValues(group, hs, winner) ==
  IF group = <<>> THEN 0
  ELSE (IF Head(group) # winner THEN PileValue(hs[Head(group)]) ELSE 0)
       + SumValues(Tail(group), hs, winner)

GivePoints(pts, group, hs, winner) ==
  [pts EXCEPT ![winner] = pts[winner] + SumValues(group, hs, winner)]

\* Group.standings: the tuples (points, name, player) sorted in reverse.  Two
\* tuples with equal points and names are ordered by comparing the players,
\* which raises TypeError; otherwise the order is by points, then by name,
\* both descending
TupleLt(pts, nms, a, b) ==
  \/ pts[a] < pts[b]
  \/ pts[a] = pts[b] /\ nms[a] < nms[b]

RECURSIVE InsertDescending(_, _, _, _)
InsertDescending(sorted, pts, nms, p) ==
  IF sorted = <<>> THEN <<p>>
  ELSE IF TupleLt(pts, nms, Head(sorted), p) THEN <<p>> \o sorted
  ELSE <<Head(sorted)>> \o InsertDescending(Tail(sorted), pts, nms, p)

RECURSIVE SortDescending(_, _, _)
SortDescending(group, pts, nms) ==
  IF group = <<>> THEN <<>>
  ELSE InsertDescending(SortDescending(Tail(group), pts, nms), pts, nms, Head(group))

Standings(group, pts, nms) ==
  IF \E i, j \in 1..Len(group) :
       i # j /\ pts[group[i]] = pts[group[j]] /\ nms[group[i]] = nms[group[j]]
    THEN [list |-> <<>>,
          error |-> "TypeError: '<' not supported between instances of 'Player' and 'Player'"]
  ELSE [list |-> SortDescending(group, pts, nms), error |-> "none"]

\* ------------------------------------------------------------ cards.Deck
\* Deck.deal: each player in turn gets a new hand of DealSize cards
RECURSIVE DeckDeal(_, _, _)
DeckDeal(group, hs, dk) ==
  IF group = <<>> THEN [hands |-> hs, deck |-> dk, error |-> "none"]
  ELSE LET d == PlayerDraw(<<>>, dk, DealSize)
       IN  IF d.error # "none"
             THEN [hands |-> [hs EXCEPT ![Head(group)] = d.hand], deck |-> d.deck,
                   error |-> d.error]
           ELSE DeckDeal(Tail(group), [hs EXCEPT ![Head(group)] = d.hand], d.deck)

\* Pile.reset: the wild cards below the top get colour W again, deck.cards is
\* bound to self.cards[-1], the top card itself and no list (written here as
\* the pile of that one card), the discard pile keeps its top, and shuffling
\* what is no list raises TypeError
PileReset(dp) ==
  [deck |-> <<Top(dp)>>,
   discard |-> <<Top(dp)>>,
   error |-> "TypeError: object of type 'Card' has no len()"]

\* ------------------------------------------------------------------ main
\* setup_deck before the shuffle, with fewer colours, numbers and copies:
\* one colour, the number 1 twice, +2, rev and skip once, one Wild and one
\* WildDrawFour
SetupDeck ==
  LET numbers == PileAddQuantity(<<>>, Card("R", 1, NoAction), 2)
      drawTwo == PileAddQuantity(numbers, Card("R", NoNumber, "+2"), 1)
      rev == PileAddQuantity(drawTwo, Card("R", NoNumber, "rev"), 1)
      skp == PileAddQuantity(rev, Card("R", NoNumber, "skip"), 1)
      wild == PileAddQuantity(skp, Wild, 1)
  IN  PileAddQuantity(wild, WildDrawFour, 1)

PlayerIds == 1..MaxPlayers

\* initial_card without its while loop
NeverWildDrawFour(card) == FALSE

\* the condition of the while loop of initial_card
IsWildDrawFour(card) == card = WildDrawFour

\* the fields a step may change, as they are now
Now ==
  [deck |-> deck, discard |-> discard, hands |-> hands, points |-> points,
   players |-> players, player_number |-> player_number,
   current_player |-> current_player, state |-> TheState, old |-> old,
   current_card |-> current_card, event |-> event, error |-> error, pc |-> pc]

\* the step that leaves the fields as the record r says
Becomes(r) ==
  /\ deck' = r.deck
  /\ discard' = r.discard
  /\ hands' = r.hands
  /\ points' = r.points
  /\ players' = r.players
  /\ player_number' = r.player_number
  /\ current_player' = r.current_player
  /\ turn_order' = r.state.turn_order
  /\ skip' = r.state.skip
  /\ forced_draw' = r.state.forced_draw
  /\ old' = r.old
  /\ current_card' = r.current_card
  /\ event' = r.event
  /\ error' = r.error
  /\ pc' = r.pc

\* an uncaught exception: the process ends where it is
Crash(r, e) == [r EXCEPT !.error = e, !.pc = "crashed"]

Init ==
  /\ deck = <<>>
  /\ discard = <<>>
  /\ hands = [p \in PlayerIds |-> <<>>]
  /\ points = [p \in PlayerIds |-> 0]
  /\ names = [p \in PlayerIds |-> p]
  /\ players = [i \in 1..NumPlayers |-> i]
  /\ player_number = NoIndex
  /\ current_player = NoPlayer
  /\ turn_order = 1
  /\ skip = 0
  /\ forced_draw = 0
  /\ current_card = NoCard
  /\ old = NewState
  /\ card_playable = FALSE
  /\ card_number = <<>>
  /\ standings = <<>>
  /\ round = 0
  /\ event = "none"
  /\ error = "none"
  /\ pc = "setup_game"

\* setup_game: a new shuffled deck, the deal and a new State
SetupGame ==
  /\ pc = "setup_game"
  /\ round < MaxRounds
  /\ round' = round + 1
  /\ \E shuffled \in Shuffles(SetupDeck) :
       LET d == DeckDeal(players, hands, shuffled)
           r == [Now EXCEPT !.deck = d.deck, !.hands = d.hands, !.discard = <<>>,
                            !.state = NewState, !.current_card = NoCard,
                            !.event = "dealt", !.pc = "initial_card"]
       IN  Becomes(IF d.error # "none" THEN Crash(r, d.error) ELSE r)
  /\ UNCHANGED <<names, card_playable, card_number, standings>>

\* the end of initial_card, once a card that is no WildDrawFour was drawn
StartingCard(r, card) ==
  [r EXCEPT !.current_card = card, !.discard = <<card>>,
            !.old = r.state, !.state = StateUpdate(r.state, card),
            !.event = IF r.pc = "initial_card_loop" THEN "starting_card_redrawn"
                      ELSE "starting_card",
            !.pc = "turn_0"]

\* a card drawn in initial_card: it starts the round, or the loop body is next
InitialDraw(r, dk) ==
  IF dk = <<>> THEN Crash(r, "IndexError: pop from empty list")
  ELSE LET card == Top(dk)
           drawn == [r EXCEPT !.deck = SubSeq(dk, 1, Len(dk) - 1)]
       IN  IF IsWildDrawFour(card)
             THEN [drawn EXCEPT !.current_card = card, !.event = "redraw",
                                !.pc = "initial_card_loop"]
           ELSE StartingCard(drawn, card)

\* initial_card up to the loop
InitialCard ==
  /\ pc = "initial_card"
  /\ Becomes(InitialDraw(Now, deck))
  /\ UNCHANGED <<names, card_playable, card_number, standings, round>>

\* one pass of the loop of initial_card: the WildDrawFour goes back, the deck
\* is shuffled and the next card drawn
InitialCardLoop ==
  /\ pc = "initial_card_loop"
  /\ \E shuffled \in Shuffles(PileAdd(deck, current_card)) :
       Becomes(InitialDraw(Now, shuffled))
  /\ UNCHANGED <<names, card_playable, card_number, standings, round>>

\* turn_0: Group.initial, and the colour of a Wild starting card is chosen by
\* the first player, whose hand display_hand sorts
TurnZero ==
  /\ pc = "turn_0"
  /\ \E typed \in Prompted(current_card = Wild) :
       LET number == GroupInitial(turn_order, Size)
           first == players[number + 1]
           r == [Now EXCEPT !.player_number = number, !.current_player = first,
                            !.event = "turn_0", !.pc = "game"]
       IN  Becomes(IF current_card = Wild
                     THEN [r EXCEPT !.hands[first] = PileSort(hands[first]),
                                    !.current_card = WildColour(current_card, typed),
                                    !.discard = <<WildColour(current_card, typed)>>]
                     ELSE r)
  /\ UNCHANGED <<names, card_playable, card_number, standings, round>>

\* the numbers a player may type at "Choose a card by number"
Choices(hand) == (0 - Len(hand) - 1)..(Len(hand) + 1)

\* hand.cards[card_number - 1] as a position from 1: a negative index counts
\* from the end of the list, 0 when the index is out of range
ChosenPosition(hand, number) ==
  IF number >= 1 THEN number
  ELSE IF Len(hand) + number >= 1 THEN Len(hand) + number
  ELSE 0

\* turn: what becomes of the current player's hand, the deck and the discard
\* pile, and the card played.  finished is FALSE when the number typed ends in
\* a new prompt, with nothing changed but the hand sorted
Turn(hand, dk, dp, number, accept, typed) ==
  LET sorted == PileSort(hand)
      again == [hand |-> sorted, deck |-> dk, discard |-> dp, played |-> NoCard,
                error |-> "none", finished |-> FALSE]
  IN  IF ~PlayableHand(hand, dp) THEN DrawAndOffer(sorted, dk, dp, accept, typed)
      ELSE IF number = 0 THEN DrawAndOffer(sorted, dk, dp, accept, typed)
      ELSE IF number <= Len(sorted)
        THEN IF ChosenPosition(sorted, number) = 0
               THEN [again EXCEPT !.error = "IndexError: list index out of range",
                                  !.finished = TRUE]
             ELSE LET chosen == sorted[ChosenPosition(sorted, number)]
                  IN  IF ~PlayableCard(chosen, sorted, dp) THEN again
                      ELSE LET p == PlayerPlay(sorted, dp, chosen, typed)
                           IN  [hand |-> p.hand, deck |-> dk, discard |-> p.discard,
                                played |-> chosen, error |-> "none",
                                finished |-> TRUE]
      ELSE again

\* Group.next on the record of a step
Advance(r) ==
  LET number == GroupNext(r.player_number, r.state.turn_order, Len(r.players))
  IN  [r EXCEPT !.player_number = number, !.current_player = r.players[number + 1]]

\* game, the branch state.skip == 1: the forced draw, if any, then the next
\* player and the neutral state
SkippedTurn(r) ==
  IF r.state.forced_draw > 0
    THEN LET d == PlayerDraw(r.hands[r.current_player], r.deck, r.state.forced_draw)
             drawn == [r EXCEPT !.deck = d.deck, !.event = "forced_draw"]
         IN  IF d.error # "none"
               THEN Crash([drawn EXCEPT !.hands[r.current_player] = d.hand], d.error)
             ELSE LET shown == [drawn EXCEPT !.hands[r.current_player] = PileSort(d.hand)]
                  IN  [Advance(shown) EXCEPT !.state = Neutralise(r.state)]
  ELSE [Advance([r EXCEPT !.event = "skipped"]) EXCEPT !.state = Neutralise(r.state)]

\* game, the current player has emptied the hand: the pending forced draw of
\* the next player, the points and the winner first
RoundWon(r) ==
  LET nxt == r.players[GroupNext(r.player_number, r.state.turn_order, Len(r.players)) + 1]
      d == PlayerDraw(r.hands[nxt], r.deck, r.state.forced_draw)
      drawn == IF r.state.forced_draw > 0
                 THEN [r EXCEPT !.hands[nxt] = d.hand, !.deck = d.deck]
               ELSE r
  IN  IF r.state.forced_draw > 0 /\ d.error # "none" THEN Crash(drawn, d.error)
      ELSE [drawn EXCEPT
              !.points = GivePoints(r.points, r.players, drawn.hands, r.current_player),
              !.players = WinnerFirst(r.players, r.current_player),
              !.event = "won", !.pc = "match_end"]

\* game, the current player has cards left: the state takes the card played,
\* the next player is on, and an empty deck is reset
RoundGoesOn(r, played) ==
  LET updated == IF played # NoCard
                   THEN [r EXCEPT !.old = r.state, !.state = StateUpdate(r.state, played)]
                 ELSE r
      moved == Advance(updated)
  IN  IF moved.deck = <<>>
        THEN LET reset == PileReset(moved.discard)
             IN  Crash([moved EXCEPT !.deck = reset.deck, !.discard = reset.discard,
                                     !.event = "reset"],
                       reset.error)
      ELSE moved

\* game, the branch of a normal turn
NormalTurn(r, number, accept, typed) ==
  LET cur == r.current_player
      t == Turn(r.hands[cur], r.deck, r.discard, number, accept, typed)
      after == [r EXCEPT !.hands[cur] = t.hand, !.deck = t.deck, !.discard = t.discard,
                         !.event = IF t.played # NoCard THEN "played"
                                   ELSE IF t.error = "IndexError: list index out of range"
                                     THEN "chose"
                                   ELSE "drew"]
  IN  IF t.error # "none" THEN Crash(after, t.error)
      ELSE IF Len(t.hand) = 0 THEN RoundWon(after)
      ELSE RoundGoesOn(after, t.played)

\* one call of game
Game ==
  /\ pc = "game"
  /\ IF skip = 1 THEN Becomes(SkippedTurn(Now)) /\ card_number' = <<>>
     ELSE \E number \in Choices(hands[current_player]), accept \in BOOLEAN :
            LET probe == Turn(hands[current_player], deck, discard, number, accept, <<>>)
            IN  /\ probe.finished
                /\ card_number' = IF PlayableHand(hands[current_player], discard)
                                    THEN <<number>> ELSE <<>>
                /\ \E typed \in Prompted(probe.played.colour = "W") :
                     Becomes(NormalTurn(Now, number, accept, typed))
  /\ UNCHANGED <<names, card_playable, standings, round>>

\* match, after the round: the standings, and the match is over when the
\* leader has WinningPoints; otherwise main starts the next round
MatchEnd ==
  /\ pc = "match_end"
  /\ LET s == Standings(players, points, names)
     IN  /\ standings' = s.list
         /\ Becomes(IF s.error # "none" THEN Crash(Now, s.error)
                    ELSE IF points[s.list[1]] >= WinningPoints
                      THEN [Now EXCEPT !.event = "match_won", !.pc = "done"]
                    ELSE [Now EXCEPT !.event = "standings", !.pc = "setup_game"])
  /\ UNCHANGED <<names, card_playable, card_number, round>>

Next == SetupGame \/ InitialCard \/ InitialCardLoop \/ TurnZero \/ Game \/ MatchEnd

Spec == Init /\ [][Next]_vars

\* ------------------------------------------- game called in a round under way
\* The arguments of one call of game, drawn from small sets: a group of two
\* or three players, their hands, what is left of the deck, the top of the
\* discard pile and the card below it, both directions, every cursor.

\* how often setup_deck adds a card (a wild card whatever its colour now)
DeckQuantity(card) ==
  IF card.number = 0 THEN 1
  ELSE IF card.number # NoNumber THEN 2
  ELSE IF card.action \in {"+2", "rev", "skip"} THEN 2
  ELSE 4

\* a card as setup_deck made it: the wild cards with colour W
AsBuilt(card) ==
  IF card.number = NoNumber /\ card.action \in {NoAction, "+4"}
    THEN [card EXCEPT !.colour = "W"]
  ELSE card

RECURSIVE Flatten(_, _)
Flatten(group, hs) ==
  IF group = <<>> THEN <<>> ELSE hs[Head(group)] \o Flatten(Tail(group), hs)

\* the cards of a pile as setup_deck made them
BuiltCards(cards) == [i \in 1..Len(cards) |-> AsBuilt(cards[i])]

\* all cards in play, as setup_deck made them
CardsInPlay(dk, dp, group, hs) == BuiltCards(dk \o dp \o Flatten(group, hs))

\* no card occurs more often than setup_deck adds it
FromOneDeck(cards) ==
  \A i \in 1..Len(cards) : CountOf(cards, cards[i]) <= DeckQuantity(cards[i])

MidHands ==
  {<<Card("R", NoNumber, "+2")>>,
   <<WildDrawFour>>,
   <<Card("R", NoNumber, "+2"), Card("G", 5, NoAction)>>,
   <<WildDrawFour, Card("G", NoNumber, "skip")>>,
   <<Wild, Card("R", NoNumber, "rev")>>}

MidDeck ==
  <<Card("Y", 9, NoAction), Card("G", 3, NoAction), Card("R", 4, NoAction),
    Card("B", 6, NoAction), Card("Y", 7, NoAction)>>

MidDecks == {SubSeq(MidDeck, 1, k) : k \in {0, 1, 2, 4, 5}}

MidDiscard == <<Card("G", 2, NoAction), Card("R", 1, NoAction)>>

MidGroups == {<<1, 2, 3>>, <<2, 1>>}

MidPoints == {[p \in PlayerIds |-> 10 * p]}

InGroup(group, p) == \E i \in 1..Len(group) : group[i] = p

InitGame ==
  /\ players \in MidGroups
  /\ hands \in [PlayerIds -> MidHands \cup {<<>>}]
  /\ \A p \in PlayerIds : (hands[p] = <<>>) <=> ~InGroup(players, p)
  /\ deck \in MidDecks
  /\ discard = MidDiscard
  /\ FromOneDeck(CardsInPlay(deck, discard, players, hands))
  /\ points \in MidPoints
  /\ names = [p \in PlayerIds |-> p]
  /\ player_number \in 0..(Len(players) - 1)
  /\ current_player = players[player_number + 1]
  /\ turn_order \in {1, -1}
  /\ skip = 0
  /\ forced_draw = 0
  /\ current_card = MidDiscard[1]
  /\ old = NewState
  /\ card_playable = FALSE
  /\ card_number = <<>>
  /\ standings = <<>>
  /\ round = 1
  /\ event = "turn_0"
  /\ error = "none"
  /\ pc = "game"

SpecGame == InitGame /\ [][Game]_vars

\* -------------------------------------------------- State.update on its own
\* every card of the deck, the wild cards with every colour they may have
AllCards ==
  {Card(c, n, NoAction) : c \in Colours, n \in 0..9}
  \cup {Card(c, NoNumber, a) : c \in Colours, a \in {"+2", "rev", "skip"}}
  \cup {Card(c, NoNumber, a) : c \in Colours \cup {"W"}, a \in {NoAction, "+4"}}

InitUpdate ==
  /\ turn_order \in {1, -1}
  /\ skip \in {0, 1}
  /\ forced_draw \in {0, 2, 4}
  /\ old = TheState
  /\ current_card = NoCard
  /\ deck = <<>>
  /\ discard = <<>>
  /\ hands = [p \in PlayerIds |-> <<>>]
  /\ points = [p \in PlayerIds |-> 0]
  /\ names = [p \in PlayerIds |-> p]
  /\ players = <<>>
  /\ player_number = NoIndex
  /\ current_player = NoPlayer
  /\ card_playable = FALSE
  /\ card_number = <<>>
  /\ standings = <<>>
  /\ round = 0
  /\ event = "none"
  /\ error = "none"
  /\ pc = "State.update"

\* state.update(card)
UpdateCall ==
  /\ pc = "State.update"
  /\ \E card \in AllCards :
       Becomes([Now EXCEPT !.old = TheState, !.state = StateUpdate(TheState, card),
                           !.current_card = card, !.event = "updated"])
  /\ UNCHANGED <<names, card_playable, card_number, standings, round>>

SpecUpdate == InitUpdate /\ [][UpdateCall]_vars

\* ------------------------------------------- Player.playable_card on its own
CheckCards ==
  {Card("R", 5, NoAction), Card("B", 5, NoAction), Card("B", 2, NoAction),
   Card("R", NoNumber, "skip"), Card("B", NoNumber, "skip"),
   Card("G", NoNumber, "+2"), Wild, WildDrawFour}

\* the hands of one or two cards
CheckHands ==
  {<<a>> : a \in CheckCards} \cup {<<a, b>> : a \in CheckCards, b \in CheckCards}

\* the tops of the discard pile: cards played, the wild ones with their colour
CheckTops ==
  {Card("B", 7, NoAction), Card("R", 5, NoAction), Card("G", NoNumber, "skip"),
   Card("Y", NoNumber, "+2"), Card("B", NoNumber, NoAction),
   Card("G", NoNumber, NoAction), Card("B", NoNumber, "+4"),
   Card("Y", NoNumber, "+4")}

InitPlayable ==
  /\ players = <<1>>
  /\ hands \in [PlayerIds -> CheckHands \cup {<<>>}]
  /\ \A p \in PlayerIds : (hands[p] = <<>>) <=> p # 1
  /\ \E top \in CheckTops : discard = <<top>>
  /\ \E i \in 1..2 : i <= Len(hands[1]) /\ current_card = hands[1][i]
  /\ FromOneDeck(CardsInPlay(<<>>, discard, players, hands))
  /\ deck = <<>>
  /\ points = [p \in PlayerIds |-> 0]
  /\ names = [p \in PlayerIds |-> p]
  /\ player_number = 0
  /\ current_player = 1
  /\ turn_order = 1
  /\ skip = 0
  /\ forced_draw = 0
  /\ old = NewState
  /\ card_playable = FALSE
  /\ card_number = <<>>
  /\ standings = <<>>
  /\ round = 1
  /\ event = "none"
  /\ error = "none"
  /\ pc = "Player.playable_card"

\* current_player.playable_card(card, discard_pile)
PlayableCall ==
  /\ pc = "Player.playable_card"
  /\ card_playable' = PlayableCard(current_card, hands[current_player], discard)
  /\ pc' = "returned"
  /\ UNCHANGED <<deck, discard, hands, points, names, players, player_number,
                 current_player, turn_order, skip, forced_draw, current_card, old,
                 card_number, standings, round, event, error>>

SpecPlayable == InitPlayable /\ [][PlayableCall]_vars

\* ----------------------------------------------- Group.standings on its own
StandingsPoints == {0, 20, 500}

StandingsNames == 1..MaxPlayers

InitStandings ==
  /\ players = [i \in 1..MaxPlayers |-> i]
  /\ points \in [PlayerIds -> StandingsPoints]
  /\ names \in [PlayerIds -> StandingsNames]
  /\ hands = [p \in PlayerIds |-> <<>>]
  /\ deck = <<>>
  /\ discard = <<>>
  /\ player_number = NoIndex
  /\ current_player = NoPlayer
  /\ turn_order = 1
  /\ skip = 0
  /\ forced_draw = 0
  /\ current_card = NoCard
  /\ old = NewState
  /\ card_playable = FALSE
  /\ card_number = <<>>
  /\ standings = <<>>
  /\ round = 1
  /\ event = "none"
  /\ error = "none"
  /\ pc = "Group.standings"

\* group.standings
StandingsCall ==
  /\ pc = "Group.standings"
  /\ LET s == Standings(players, points, names)
     IN  /\ standings' = s.list
         /\ error' = s.error
         /\ pc' = IF s.error # "none" THEN "crashed" ELSE "returned"
  /\ UNCHANGED <<deck, discard, hands, points, names, players, player_number,
                 current_player, turn_order, skip, forced_draw, current_card, old,
                 card_playable, card_number, round, event>>

SpecStandings == InitStandings /\ [][StandingsCall]_vars

\* ------------------------------------------------- the Group's cursor on its own
\* every group of 1 to GroupMax players in every order
Groups ==
  UNION {{g \in [1..n -> 1..n] : \A i, j \in 1..n : g[i] = g[j] => i = j} :
         n \in 1..GroupMax}

InitGroup ==
  /\ players \in Groups
  /\ player_number = NoIndex
  /\ current_player = NoPlayer
  /\ turn_order = 1
  /\ skip = 0
  /\ forced_draw = 0
  /\ hands = [p \in 1..GroupMax |-> <<>>]
  /\ points = [p \in 1..GroupMax |-> 0]
  /\ names = [p \in 1..GroupMax |-> p]
  /\ deck = <<>>
  /\ discard = <<>>
  /\ current_card = NoCard
  /\ old = NewState
  /\ card_playable = FALSE
  /\ card_number = <<>>
  /\ standings = <<>>
  /\ round = 1
  /\ event = "none"
  /\ error = "none"
  /\ pc = "Group"

\* group.initial(state), the state with either turn order
GroupInitialCall ==
  /\ pc = "Group"
  /\ event \in {"none", "winner_first"}
  /\ \E order \in {1, -1} :
       LET number == GroupInitial(order, Size)
       IN  Becomes([Now EXCEPT !.state.turn_order = order, !.player_number = number,
                               !.current_player = players[number + 1],
                               !.event = "initial"])
  /\ UNCHANGED <<names, card_playable, card_number, standings, round>>

\* group.next(state), the state with either turn order
GroupNextCall ==
  /\ pc = "Group"
  /\ event \in {"initial", "next"}
  /\ \E order \in {1, -1} :
       Becomes(Advance([Now EXCEPT !.state.turn_order = order, !.event = "next"]))
  /\ UNCHANGED <<names, card_playable, card_number, standings, round>>

\* group.winner_first()
WinnerFirstCall ==
  /\ pc = "Group"
  /\ event \in {"initial", "next"}
  /\ Becomes([Now EXCEPT !.players = WinnerFirst(players, current_player),
                          !.event = "winner_first"])
  /\ UNCHANGED <<names, card_playable, card_number, standings, round>>

SpecGroup ==
  InitGroup /\ [][GroupInitialCall \/ GroupNextCall \/ WinnerFirstCall]_vars

\* ------------------------------------------------- match from the end of a round
\* game has returned False: the winner, whose hand is empty, is the current
\* player and first in the group, the cursor is where the winner stood, and
\* the points are those of the rounds played so far.  Two players may have
\* typed the same name in setup_group.
RoundsGroups == {<<2, 1>>, <<3, 1, 2>>}

RoundsPoints == {<<0, 0, 0>>, <<480, 20, 0>>, <<20, 500, 0>>, <<500, 520, 0>>, <<20, 20, 0>>}

RoundsNames == {<<1, 2, 3>>, <<1, 1, 2>>}

InitRounds ==
  /\ players \in RoundsGroups
  /\ current_player = players[1]
  /\ player_number \in 0..(Len(players) - 1)
  /\ points \in RoundsPoints
  /\ names \in RoundsNames
  /\ hands = [p \in PlayerIds |->
               IF InGroup(players, p) /\ p # current_player
                 THEN <<Card("R", 1, NoAction)>> ELSE <<>>]
  /\ deck = <<Card("R", NoNumber, "skip")>>
  /\ discard = <<Card("R", 1, NoAction), Card("R", NoNumber, "rev")>>
  /\ current_card = Card("R", 1, NoAction)
  /\ turn_order = -1
  /\ skip = 0
  /\ forced_draw = 0
  /\ old = NewState
  /\ card_playable = FALSE
  /\ card_number = <<1>>
  /\ standings = <<>>
  /\ round = 0
  /\ event = "won"
  /\ error = "none"
  /\ pc = "match_end"

SpecRounds ==
  InitRounds /\ [][MatchEnd \/ SetupGame \/ InitialCard \/ InitialCardLoop \/ TurnZero]_vars

\* ------------------------------------------------------- Pile.sort on its own
\* the cards of a hand: cards of the deck, the wild ones with colour W, among
\* them cards that differ in one attribute only
SortCards ==
  {Card("B", 0, NoAction), Card("R", 0, NoAction), Card("R", 9, NoAction),
   Card("Y", 9, NoAction), Card("R", NoNumber, "+2"), Card("R", NoNumber, "rev"),
   Card("R", NoNumber, "skip"), Card("G", NoNumber, "skip"),
   Card("Y", NoNumber, "+2"), Wild, WildDrawFour}

\* the hands of two or three cards
SortHands ==
  {<<a, b>> : a \in SortCards, b \in SortCards}
  \cup {<<a, b, c>> : a \in {Wild, WildDrawFour}, b \in SortCards, c \in SortCards}

InitSort ==
  /\ players = <<1>>
  /\ \E hand \in SortHands :
       /\ FromOneDeck(hand)
       /\ hands = [p \in PlayerIds |-> IF p = 1 THEN hand ELSE <<>>]
  /\ deck = <<>>
  /\ discard = <<>>
  /\ points = [p \in PlayerIds |-> 0]
  /\ names = [p \in PlayerIds |-> p]
  /\ player_number = 0
  /\ current_player = 1
  /\ turn_order = 1
  /\ skip = 0
  /\ forced_draw = 0
  /\ current_card = NoCard
  /\ old = NewState
  /\ card_playable = FALSE
  /\ card_number = <<>>
  /\ standings = <<>>
  /\ round = 1
  /\ event = "none"
  /\ error = "none"
  /\ pc = "Pile.sort"

\* current_player.hand.sort(), as display_hand calls it
SortCall ==
  /\ pc = "Pile.sort"
  /\ hands' = [hands EXCEPT ![current_player] = PileSort(hands[current_player])]
  /\ pc' = "returned"
  /\ event' = "sorted"
  /\ UNCHANGED <<deck, discard, points, names, players, player_number,
                 current_player, turn_order, skip, forced_draw, current_card, old,
                 card_playable, card_number, standings, round, error>>

SpecSort == InitSort /\ [][SortCall]_vars

\* ------------------------------------------------------ cards as objects
\* Here a pile holds references: an entry is a card with the field id naming
\* its object, two entries with one id are one object in two places, and
\* assigning a colour to an object shows in every entry with its id.

\* the card object id with the attributes of card
Object(card, id) ==
  [colour |-> card.colour, number |-> card.number, action |-> card.action, id |-> id]

\* what Card.__eq__ compares
Attributes(obj) == Card(obj.colour, obj.number, obj.action)

AttributesOf(cards) == [i \in 1..Len(cards) |-> Attributes(cards[i])]

\* Pile.add that appends the card given, wild or not
PileAddSameObject(cards, obj, fresh) == Append(cards, obj)

\* Pile.add with quantity 1: a card of colour W is appended as a new object
\* with the same attributes, any other card as the object given
PileAddObject(cards, obj, fresh) ==
  IF obj.colour = "W" THEN Append(cards, [obj EXCEPT !.id = fresh])
  ELSE Append(cards, obj)

\* Pile.add with a quantity; the new objects are fresh, fresh + 1, ...
RECURSIVE PileAddObjects(_, _, _, _)
PileAddObjects(cards, obj, quantity, fresh) ==
  IF quantity = 0 THEN cards
  ELSE PileAddObjects(PileAddObject(cards, obj, fresh), obj, quantity - 1, fresh + 1)

\* Pile.remove: the first entry equal to the card under Card.__eq__ goes
RECURSIVE PileRemoveObject(_, _)
PileRemoveObject(cards, obj) ==
  IF cards = <<>> THEN <<>>
  ELSE IF Attributes(Head(cards)) = Attributes(obj) THEN Tail(cards)
  ELSE <<Head(cards)>> \o PileRemoveObject(Tail(cards), obj)

\* the entries of a pile after the object id was given a colour
SetColour(cards, id, colour) ==
  [i \in 1..Len(cards) |->
     IF cards[i].id = id THEN [cards[i] EXCEPT !.colour = colour] ELSE cards[i]]

\* setup_deck with one number card twice, two Wilds and one WildDrawFour:
\* Card(...) makes the objects 1, 2 and 5, Pile.add the copies 3, 4 and 6
ObjectDeck ==
  LET numbers == PileAddObjects(<<>>, Object(Card("R", 1, NoAction), 1), 2, 0)
      wilds == PileAddObjects(numbers, Object(Wild, 2), 2, 3)
  IN  PileAddObjects(wilds, Object(WildDrawFour, 5), 1, 6)

\* an id no object of the piles has
FreshId ==
  LET all == deck \o discard \o Flatten(players, hands)
      ids == {all[i].id : i \in 1..Len(all)} \cup {5}
  IN  1 + (CHOOSE m \in ids : \A n \in ids : n <= m)

\* the round has started with a card that is not wild
InitObjects ==
  /\ \E shuffled \in Shuffles(ObjectDeck) :
       /\ Top(shuffled).colour # "W"
       /\ deck = SubSeq(shuffled, 1, Len(shuffled) - 1)
       /\ discard = <<Top(shuffled)>>
  /\ players = [i \in 1..NumPlayers |-> i]
  /\ hands = [p \in PlayerIds |-> <<>>]
  /\ points = [p \in PlayerIds |-> 0]
  /\ names = [p \in PlayerIds |-> p]
  /\ player_number = 0
  /\ current_player = 1
  /\ turn_order = 1
  /\ skip = 0
  /\ forced_draw = 0
  /\ current_card = NoCard
  /\ old = NewState
  /\ card_playable = FALSE
  /\ card_number = <<>>
  /\ standings = <<>>
  /\ round = 1
  /\ event = "none"
  /\ error = "none"
  /\ pc = "objects"

\* player.draw(1, deck): hand.add(deck.draw())
ObjectDraw ==
  /\ pc = "objects"
  /\ deck # <<>>
  /\ \E p \in 1..NumPlayers :
       /\ hands' = [hands EXCEPT ![p] = PileAddObject(hands[p], Top(deck), FreshId)]
       /\ current_player' = p
  /\ deck' = SubSeq(deck, 1, Len(deck) - 1)
  /\ event' = "drew"
  /\ UNCHANGED <<discard, points, names, players, player_number, turn_order, skip,
                 forced_draw, current_card, old, card_playable, card_number,
                 standings, round, error, pc>>

\* player.play(card, discard_pile) for a playable card of the hand: the card
\* leaves the hand, is added to the discard pile, and the top of the discard
\* pile is given the colour chosen when its colour is W
ObjectPlay ==
  /\ pc = "objects"
  /\ \E p \in 1..NumPlayers : \E i \in 1..Len(hands[p]) :
       LET card == hands[p][i]
           left == PileRemoveObject(hands[p], card)
           added == PileAddObject(discard, card, FreshId)
           top == Top(added)
       IN  /\ PlayableCard(Attributes(card), AttributesOf(hands[p]), AttributesOf(discard))
           /\ current_player' = p
           /\ current_card' = Attributes(card)
           /\ \E typed \in Prompted(top.colour = "W") :
                LET colour == WildColour(top, typed).colour
                    moved == [hands EXCEPT ![p] = left]
                IN  IF top.colour = "W"
                      THEN /\ deck' = SetColour(deck, top.id, colour)
                           /\ discard' = SetColour(added, top.id, colour)
                           /\ hands' = [q \in PlayerIds |->
                                          SetColour(moved[q], top.id, colour)]
                    ELSE deck' = deck /\ discard' = added /\ hands' = moved
  /\ event' = "played"
  /\ UNCHANGED <<points, names, players, player_number, turn_order, skip,
                 forced_draw, old, card_playable, card_number, standings, round,
                 error, pc>>

SpecObjects == InitObjects /\ [][ObjectDraw \/ ObjectPlay]_vars

\* ================================================================ claims
\* two piles hold the same cards, each as often
SameCards(a, b) ==
  /\ Len(a) = Len(b)
  /\ \A i \in 1..Len(a) : CountOf(a, a[i]) = CountOf(b, a[i])

\* the player after the current one in the direction of play
NextPlayer == players[((player_number + turn_order) % Len(players)) + 1]

\* the cards a DrawTwo or WildDrawFour makes the next player draw
DrawCount(card) == IF card.action = "+2" THEN 2 ELSE 4

\* the cards that are in no hand
OutOfHands == Len(SetupDeck) - Len(Flatten(players, hands))

\* C1: when the current player empties the hand by playing a DrawTwo or a
\* WildDrawFour, the next player in the direction of play draws 2 or 4 cards
\* before the points are given.
C1_WinnerForcedDrawApplied ==
  [][(/\ pc = "game"
      /\ pc' = "match_end"
      /\ Len(discard') = Len(discard) + 1
      /\ Top(discard').action \in {"+2", "+4"})
     => Len(hands'[NextPlayer]) = Len(hands[NextPlayer]) + DrawCount(Top(discard'))]_vars

\* C2: after Pile.reset of a discard pile of n >= 2 cards on an empty deck (the
\* n cards are then all cards that are in no hand) the process goes on, the
\* discard pile is its former top alone and the deck holds the n - 1 other
\* cards that were on it, so that no card of the round is lost.
C2_ResetRebuildsDeck ==
  (event = "reset" /\ OutOfHands >= 2) =>
    /\ error = "none"
    /\ Len(discard) = 1
    /\ Len(deck) = OutOfHands - 1
    /\ SameCards(CardsInPlay(deck, discard, players, hands), SetupDeck)

\* C3: no draw of a round finds the deck empty: list.pop never raises
\* IndexError.
C3_NoDrawFromEmptyDeck == error # "IndexError: pop from empty list"

\* C4: playable_card answers true for a WildDrawFour exactly when no card of
\* the hand has the colour of the top of the discard pile.
C4_WildDrawFourOnlyWithoutColour ==
  (pc = "returned" /\ current_card = WildDrawFour) =>
    (card_playable <=> ~ColourMatches(hands[current_player], Top(discard)))

\* C5: at the start of every call of game the top of the discard pile has one
\* of the colours R, G, B, Y.
C5_TopColourResolved == pc = "game" => Top(discard).colour \in Colours

\* C6: a DrawTwo or WildDrawFour played by a player who keeps cards leaves
\* skip = 1, the forced draw of 2 or 4 and the cursor on the next player in
\* the unchanged direction; the call of game that finds a forced draw and
\* enough cards in the deck gives the current player exactly these cards from
\* the top of the deck, plays nothing, moves the cursor one step further in
\* the same direction and leaves skip = 0 and forced_draw = 0.
C6_ForcedDrawSkipsOne ==
  [][/\ (/\ pc = "game" /\ skip = 0 /\ pc' = "game"
         /\ Len(discard') = Len(discard) + 1
         /\ Top(discard').action \in {"+2", "+4"})
        => /\ skip' = 1
           /\ forced_draw' = DrawCount(Top(discard'))
           /\ turn_order' = turn_order
           /\ current_player' = NextPlayer
     /\ (pc = "game" /\ skip = 1 /\ forced_draw > 0 /\ Len(deck) >= forced_draw)
        => /\ pc' = "game" /\ error' = "none"
           /\ Len(hands'[current_player]) = Len(hands[current_player]) + forced_draw
           /\ SameCards(hands'[current_player],
                        hands[current_player]
                          \o SubSeq(deck, Len(deck) - forced_draw + 1, Len(deck)))
           /\ deck' = SubSeq(deck, 1, Len(deck) - forced_draw)
           /\ discard' = discard
           /\ \A p \in PlayerIds \ {current_player} : hands'[p] = hands[p]
           /\ player_number' = (player_number + turn_order) % Size
           /\ current_player' = players[player_number' + 1]
           /\ players' = players
           /\ skip' = 0 /\ forced_draw' = 0 /\ turn_order' = turn_order]_vars

\* C6 witness: in a group of three playing in reverse, a WildDrawFour was
\* played and the call after it made the next player draw.
C6_Witness ==
  /\ pc = "game" /\ event = "forced_draw" /\ Top(discard).action = "+4"
  /\ turn_order = -1 /\ Size = 3 /\ skip = 0 /\ forced_draw = 0

\* C7: State.update follows its table for every card and every state before:
\* Reverse negates turn_order and clears skip and forced_draw, Skip sets
\* skip = 1 and forced_draw = 0, DrawTwo and WildDrawFour set skip = 1 and
\* forced_draw = 2 and 4, every other card clears both, only Reverse changes
\* turn_order, and a second Reverse in a row restores it.
C7_UpdateTable ==
  [][LET action == current_card'.action
     IN  /\ action = "rev"
              => turn_order' = 0 - turn_order /\ skip' = 0 /\ forced_draw' = 0
         /\ action = "skip"
              => turn_order' = turn_order /\ skip' = 1 /\ forced_draw' = 0
         /\ action = "+2"
              => turn_order' = turn_order /\ skip' = 1 /\ forced_draw' = 2
         /\ action = "+4"
              => turn_order' = turn_order /\ skip' = 1 /\ forced_draw' = 4
         /\ action = NoAction
              => turn_order' = turn_order /\ skip' = 0 /\ forced_draw' = 0
         /\ (action = "rev" /\ current_card.action = "rev")
              => turn_order' = old.turn_order]_vars

\* C7 witness: a Reverse was applied to a state with a forced draw pending.
C7_Witness ==
  /\ current_card.action = "rev" /\ old.skip = 1 /\ old.forced_draw = 4
  /\ turn_order = 0 - old.turn_order /\ skip = 0 /\ forced_draw = 0

\* C8: when initial_card returns, the discard pile is one card that is no
\* WildDrawFour, the deck has lost exactly that card, and the state is the new
\* State updated with it; the card at the bottom of the discard pile of a
\* round is never a WildDrawFour.
C8_InitialCardNeverWildDrawFour ==
  /\ pc = "turn_0" =>
       /\ Len(discard) = 1
       /\ discard[1] = current_card
       /\ discard[1] # WildDrawFour
       /\ TheState = StateUpdate(NewState, discard[1])
       /\ Len(deck) = Len(SetupDeck) - NumPlayers * DealSize - 1
       /\ SameCards(CardsInPlay(deck, discard, players, hands), SetupDeck)
  /\ pc \in {"turn_0", "game", "match_end"} => discard[1].action # "+4"

\* C8 witness: initial_card has returned after drawing a WildDrawFour first.
C8_Witness == pc = "turn_0" /\ event = "starting_card_redrawn"

\* the points of a card as the rules give them
RulePoints(card) ==
  CASE card.action \in {"+2", "rev", "skip"} -> 20
    [] card.action = "+4" -> 50
    [] card.action = NoAction /\ card.number = NoNumber -> 50
    [] OTHER -> card.number

RECURSIVE RuleHandPoints(_)
RuleHandPoints(cards) ==
  IF cards = <<>> THEN 0 ELSE RulePoints(Head(cards)) + RuleHandPoints(Tail(cards))

RECURSIVE RuleOthersPoints(_, _, _)
RuleOthersPoints(group, hs, winner) ==
  IF group = <<>> THEN 0
  ELSE (IF Head(group) = winner THEN 0 ELSE RuleHandPoints(hs[Head(group)]))
       + RuleOthersPoints(Tail(group), hs, winner)

\* C9: the call of game that ends the round raises the winner's points by the
\* rule value of all cards the other players hold then, and changes no other
\* player's points.
C9_WinnerGetsOthersHands ==
  [][(pc = "game" /\ pc' = "match_end")
     => /\ points'[current_player]
             = points[current_player] + RuleOthersPoints(players, hands', current_player)
        /\ \A p \in PlayerIds \ {current_player} : points'[p] = points[p]]_vars

\* C9 witness: a round of three players was won and the winner holds more
\* points than before.
C9_Witness ==
  /\ pc = "match_end" /\ event = "won" /\ Size = 3
  /\ hands[current_player] = <<>>
  /\ points[current_player] >= 10 * current_player + 90

\* the place of a player in Group.players
PlaceOf(p) == IndexOf(players, p)

\* standings holds every player once
AllPlayersOnce ==
  /\ Len(standings) = Len(players)
  /\ \A i \in 1..Len(players) : \E j \in 1..Len(standings) : standings[j] = players[i]

\* C10 as stated: what standings returns holds the players by points
\* descending, players with equal points in the order they have in
\* Group.players.
C10_StandingsStable ==
  pc = "returned" =>
    /\ AllPlayersOnce
    /\ \A i, j \in 1..Len(standings) :
         i < j => \/ points[standings[i]] > points[standings[j]]
                  \/ /\ points[standings[i]] = points[standings[j]]
                     /\ PlaceOf(standings[i]) < PlaceOf(standings[j])

\* the index from 0 at which a player stands in a group
PlaceIn(group, p) == CHOOSE i \in 0..(Len(group) - 1) : group[i + 1] = p

\* the player who follows p in a group, the first following the last
FollowerIn(group, p) ==
  IF PlaceIn(group, p) = Len(group) - 1 THEN group[1]
  ELSE group[PlaceIn(group, p) + 2]

\* C11: Group.winner_first leaves the winner (the current player) at index 0,
\* the players are the same, and every player is followed by the same player
\* as before.
C11_WinnerFirstRotates ==
  [][event' = "winner_first"
     => /\ players'[1] = current_player
        /\ current_player' = current_player
        /\ Len(players') = Len(players)
        /\ \A i \in 1..Len(players) :
             /\ \E j \in 1..Len(players') : players'[j] = players[i]
             /\ FollowerIn(players', players[i]) = FollowerIn(players, players[i])]_vars

\* C11 witness: winner_first has rotated a group of four whose winner stood
\* at index 2.
C11_Witness ==
  /\ event = "winner_first" /\ Len(players) = 4
  /\ player_number = 2 /\ players[1] = current_player

\* C13: Group.initial sets the cursor to 0 when turn_order is 1 and to
\* size - 1 when it is -1; Group.next moves the cursor one up when turn_order
\* is 1, the last index being followed by 0, and one down when it is -1, 0
\* being followed by the last index; current_player is the player there.
C13_CursorMoves ==
  [][/\ event' = "initial"
          => player_number' = (IF turn_order' = 1 THEN 0 ELSE Len(players) - 1)
     /\ event' = "next"
          => player_number' =
               (IF turn_order' = 1
                  THEN (IF player_number = Len(players) - 1 THEN 0
                        ELSE player_number + 1)
                ELSE (IF player_number = 0 THEN Len(players) - 1
                      ELSE player_number - 1))
     /\ event' \in {"initial", "next"}
          => /\ players' = players
             /\ current_player' = players[player_number' + 1]]_vars

\* C13 witness: Group.initial has put the cursor of four players playing in
\* reverse on index 3.
C13_Witness ==
  /\ event = "initial" /\ Len(players) = 4 /\ turn_order = -1
  /\ player_number = 3 /\ current_player = players[4]

LeaderHasWon == \E i \in 1..Len(players) : points[players[i]] >= 500

\* C20: after a round the match is over exactly when some player has 500
\* points or more; otherwise the next round is set up, and the points stay as
\* they are until its first turn.
C20_MatchEndsAtThreshold ==
  [][/\ pc = "match_end"
          => IF LeaderHasWon THEN pc' = "done" ELSE pc' = "setup_game"
     /\ pc \in {"match_end", "setup_game", "initial_card", "initial_card_loop", "turn_0"}
          => points' = points]_vars

\* Group.initial has been called in this match
CursorSet == player_number # NoIndex

\* the cursor addresses a player of the group
CursorInGroup == player_number >= 0 /\ player_number < Len(players)

\* a round has been won and Group.initial was not called since
AfterWinnerFirst ==
  pc \in {"match_end", "setup_game", "initial_card", "initial_card_loop", "turn_0", "done"}

\* C14 as stated: from the first Group.initial on, the cursor is an index of
\* the group and the current player is the player at the cursor.
C14_CursorAddressesCurrentPlayer ==
  CursorSet => CursorInGroup /\ current_player = players[player_number + 1]

\* C14 amended: from the first Group.initial on, the cursor is an index of
\* the group; the current player is the player at the cursor while a round
\* is played, and from Group.winner_first to the next Group.initial the
\* current player is the first of the group, the cursor staying where the
\* winner stood before.
C14_CursorInGroupWinnerFirst ==
  CursorSet =>
    /\ CursorInGroup
    /\ \E i \in 1..Len(players) : players[i] = current_player
    /\ AfterWinnerFirst => current_player = players[1]
    /\ ~AfterWinnerFirst => current_player = players[player_number + 1]

\* C14 witness: the round was won by the player at index 1, who is first in
\* the group now.
C14_Witness ==
  /\ pc = "match_end" /\ event = "won" /\ player_number = 1
  /\ current_player = players[1] /\ hands[current_player] = <<>>

\* C15: a call of turn in which the prompt for a card number is reached never
\* ends on a number outside 0..hand_size: such a number plays no card, draws
\* none and raises nothing, and the prompt comes again; a card is played only
\* on a number in 1..hand_size and one is drawn only on 0.
C15_OutOfRangeChoiceRejected ==
  [][(pc = "game" /\ skip = 0 /\ card_number' # <<>>)
     => /\ card_number'[1] >= 0
        /\ card_number'[1] <= Len(hands[current_player])
        /\ Len(discard') > Len(discard) /\ Len(deck') = Len(deck)
             => card_number'[1] >= 1
        /\ Len(deck') < Len(deck) => card_number'[1] = 0]_vars

\* a card is a plain Wild or a WildDrawFour, whatever its colour now
WildFamily(card) == card.number = -1 /\ card.action \in {"none", "+4"}

\* two cards have the same colour, or both a number and the same, or both an
\* action and the same
SameColourNumberOrAction(card, top) ==
  \/ card.colour = top.colour
  \/ card.number # -1 /\ top.number # -1 /\ card.number = top.number
  \/ card.action # "none" /\ top.action # "none" /\ card.action = top.action

\* C16: for a card that is no Wild and no WildDrawFour, playable_card returns
\* true exactly when the card and the top of the discard pile have the same
\* colour, number or action; for a plain Wild of the hand it returns true.
C16_PlayableByColourNumberAction ==
  pc = "returned" =>
    /\ ~WildFamily(current_card)
         => (card_playable <=> SameColourNumberOrAction(current_card, Top(discard)))
    /\ (WildFamily(current_card) /\ current_card.action = "none") => card_playable

\* C16 witness: with the hand [Red 5, Wild] on a Blue 7, the Red 5 was found
\* not playable.
C16_Witness ==
  /\ pc = "returned" /\ ~card_playable
  /\ hands[current_player] = <<Card("R", 5, "none"), Card("W", -1, "none")>>
  /\ current_card = Card("R", 5, "none")
  /\ Top(discard) = Card("B", 7, "none")

\* the example's other half: the Wild of that hand was found playable
C16_WitnessWild ==
  /\ pc = "returned" /\ card_playable
  /\ hands[current_player] = <<Card("R", 5, "none"), Card("W", -1, "none")>>
  /\ current_card = Card("W", -1, "none")
  /\ Top(discard) = Card("B", 7, "none")

\* C17: after Pile.reset has returned, every Wild and WildDrawFour of the
\* deck has colour W again and every other card of the deck a colour of its
\* own, and the card left on the discard pile has the colour it was played
\* with.
C17_ResetRestoresWildColour ==
  event = "reset" =>
    /\ error = "none"
    /\ \A i \in 1..Len(deck) :
         IF WildFamily(deck[i]) THEN deck[i].colour = "W"
         ELSE deck[i].colour \in {"R", "G", "B", "Y"}
    /\ Len(discard) = 1 /\ discard[1].colour \in {"R", "G", "B", "Y"}

\* the deck after a reset is bound to a Wild that has a colour chosen
C17_ResolvedWildInDeck ==
  /\ event = "reset" /\ Len(deck) = 1 /\ WildFamily(deck[1]) /\ deck[1].colour # "W"

\* the place of a colour, Wild after B, G, R and Y (Python's order of the
\* letters, "Z" for Wild)
ColourPlace(colour) ==
  IF colour = "B" THEN 1 ELSE IF colour = "G" THEN 2 ELSE IF colour = "R" THEN 3
  ELSE IF colour = "Y" THEN 4 ELSE 5

\* the place of a number, a missing one after 0 to 9
NumberPlace(number) == IF number = -1 THEN 10 ELSE number

\* the place of an action, a missing one after all actions
ActionPlaceLast(action) ==
  IF action = "+2" THEN 1 ELSE IF action = "+4" THEN 2 ELSE IF action = "rev" THEN 3
  ELSE IF action = "skip" THEN 4 ELSE 5

\* the place of an action, a missing one before all actions
ActionPlaceFirst(action) == IF action = "none" THEN 0 ELSE ActionPlaceLast(action)

\* the sorted hand
SortedHand == hands[current_player]

\* C18 as stated: in a sorted pile the cards stand in the lexicographic order
\* of (colour, number, action) with Wild, a missing number and a missing
\* action as the last of their kind, so a plain Wild stands after a
\* WildDrawFour.
C18_MissingActionSortsLast ==
  pc = "returned" =>
    \A i, j \in 1..Len(SortedHand) :
      i < j =>
        LET a == SortedHand[i]
            b == SortedHand[j]
        IN  \/ ColourPlace(a.colour) < ColourPlace(b.colour)
            \/ /\ ColourPlace(a.colour) = ColourPlace(b.colour)
               /\ NumberPlace(a.number) < NumberPlace(b.number)
            \/ /\ ColourPlace(a.colour) = ColourPlace(b.colour)
               /\ NumberPlace(a.number) = NumberPlace(b.number)
               /\ ActionPlaceLast(a.action) <= ActionPlaceLast(b.action)

\* C18 amended: the same with a missing action as the first of its kind, so
\* a plain Wild stands before a WildDrawFour.
C18_MissingActionSortsFirst ==
  pc = "returned" =>
    \A i, j \in 1..Len(SortedHand) :
      i < j =>
        LET a == SortedHand[i]
            b == SortedHand[j]
        IN  \/ ColourPlace(a.colour) < ColourPlace(b.colour)
            \/ /\ ColourPlace(a.colour) = ColourPlace(b.colour)
               /\ NumberPlace(a.number) < NumberPlace(b.number)
            \/ /\ ColourPlace(a.colour) = ColourPlace(b.colour)
               /\ NumberPlace(a.number) = NumberPlace(b.number)
               /\ ActionPlaceFirst(a.action) <= ActionPlaceFirst(b.action)

\* C18 witness: a hand dealt as WildDrawFour, Wild, Red Skip was sorted to
\* Red Skip, Wild, WildDrawFour.
C18_Witness ==
  /\ pc = "returned"
  /\ SortedHand = <<Card("R", -1, "skip"), Card("W", -1, "none"), Card("W", -1, "+4")>>

\* the colour, number and action of each entry of a pile
Faces(cards) ==
  [i \in 1..Len(cards) |->
     [colour |-> cards[i].colour, number |-> cards[i].number, action |-> cards[i].action]]

\* a pile without its entry i
Without(cards, i) == SubSeq(cards, 1, i - 1) \o SubSeq(cards, i + 1, Len(cards))

\* C19: when a card is played and the top of the discard pile is given a
\* colour, no other card changes: the deck and the other hands show the same
\* cards as before, the discard pile below its top too, and the hand of the
\* player shows the cards it had but for the one played; and no Wild or
\* WildDrawFour object is in two places.
C19_WildCopiesIndependent ==
  [][/\ event' = "played"
          => /\ Faces(deck') = Faces(deck)
             /\ \A q \in DOMAIN hands :
                  q # current_player' => Faces(hands'[q]) = Faces(hands[q])
             /\ Len(discard') = Len(discard) + 1
             /\ Faces(SubSeq(discard', 1, Len(discard))) = Faces(discard)
             /\ \E i \in 1..Len(hands[current_player']) :
                  /\ Faces(hands[current_player'])[i] = current_card'
                  /\ Faces(hands'[current_player']) =
                       Faces(Without(hands[current_player'], i))
     /\ LET all == deck' \o discard' \o hands'[1] \o hands'[2] \o hands'[3]
        IN  \A i, j \in 1..Len(all) :
              (i # j /\ all[i].number = -1 /\ all[i].action \in {"none", "+4"})
                => all[i].id # all[j].id]_vars

\* C19 witness: a Wild was played and given a colour while the other Wild
\* was in the deck or in a hand, still with colour W.
C19_Witness ==
  /\ event = "played"
  /\ Top(discard).number = -1 /\ Top(discard).action = "none"
  /\ Top(discard).colour \in {"R", "G"}
  /\ LET others == deck \o hands[1] \o hands[2] \o hands[3]
     IN  \E i \in 1..Len(others) :
           others[i].colour = "W" /\ others[i].number = -1 /\ others[i].action = "none"

\* a normal turn has drawn a card and the deck was not reset after it
DrewOne ==
  /\ pc = "game" /\ skip = 0 /\ deck # <<>>
  /\ Len(deck') = Len(deck) - 1 /\ event' # "reset"

\* C21: draw_and_offer on a deck that is not empty takes the top card of the
\* deck; when no card is played the discard pile is as before and the hand
\* holds the card drawn besides the cards it held; when the card is played
\* it is the new top of the discard pile, a Wild or WildDrawFour with a
\* colour of R, G, B, Y and any other card as it was, and the hand holds the
\* cards it held before the draw.
C21_DrawAndOfferMovesOneCard ==
  [][DrewOne =>
       LET drawn == Top(deck)
           hand == hands[current_player]
           after == hands'[current_player]
       IN  /\ deck' = SubSeq(deck, 1, Len(deck) - 1)
           /\ \A p \in DOMAIN hands : p # current_player => hands'[p] = hands[p]
           /\ \/ /\ discard' = discard
                 /\ SameCards(after, Append(hand, drawn))
              \/ /\ Len(discard') = Len(discard) + 1
                 /\ SubSeq(discard', 1, Len(discard)) = discard
                 /\ Top(discard').number = drawn.number
                 /\ Top(discard').action = drawn.action
                 /\ IF drawn.colour = "W"
                      THEN Top(discard').colour \in {"R", "G", "B", "Y"}
                      ELSE Top(discard').colour = drawn.colour
                 /\ SameCards(after, hand)]_vars

\* the hands of a round have been dealt and no card is held between two piles
Dealt == round >= 1 /\ pc \in {"initial_card", "turn_0", "game", "crashed"}

\* C22: from the deal on, the deck, the discard pile and the hands of the
\* players hold together exactly the cards setup_deck built, a Wild or
\* WildDrawFour counted whatever colour it was given.
C22_CardConservation ==
  Dealt => SameCards(CardsInPlay(deck, discard, players, hands), SetupDeck)

\* C23: in every state of a round turn_order is 1 or -1, skip is 0 or 1,
\* forced_draw is 0, 2 or 4, and a forced draw is pending only together with
\* a skip, so that a normal turn (skip = 0) starts with forced_draw = 0.
C23_StateShape ==
  /\ turn_order \in {1, -1}
  /\ skip \in {0, 1}
  /\ forced_draw \in {0, 2, 4}
  /\ forced_draw > 0 => skip = 1
  /\ (pc = "game" /\ skip = 0) => forced_draw = 0

\* a turn is skipped with four cards to draw, the turn order reversed
C23_Witness ==
  pc = "game" /\ turn_order = -1 /\ skip = 1 /\ forced_draw = 4

\* a normal turn comes after a turn that was skipped with cards to draw
C23_WitnessNeutral ==
  pc = "game" /\ skip = 0 /\ forced_draw = 0 /\ event = "forced_draw"

\* what playable_card asks of a card held in a hand, on a top of the discard
\* pile: a plain Wild, a card with the colour, number or action of the top,
\* or a WildDrawFour in a hand that has no card of the colour of the top
Legal(card, hand, top) ==
  \/ card = [colour |-> "W", number |-> -1, action |-> "none"]
  \/ SameColourNumberOrAction(card, top)
  \/ /\ card = [colour |-> "W", number |-> -1, action |-> "+4"]
     /\ \A i \in 1..Len(hand) : hand[i].colour # top.colour

\* a call of game whose turn put a card on the discard pile
PlayedOne ==
  /\ Len(discard') = Len(discard) + 1
  /\ SubSeq(discard', 1, Len(discard)) = discard

\* C24: a call of game puts at most one card on the discard pile, in a
\* normal turn only; the card comes from the hand of the current player, the
\* card just drawn counted with it, and was playable on the top of the
\* discard pile as it was before; a turn ends on a number other than 0 only
\* with the card chosen played.
C24_OnlyPlayableCardsPlayed ==
  [][(pc = "game" /\ event' # "reset") =>
       LET held == IF Len(deck') < Len(deck)
                     THEN Append(hands[current_player], Top(deck))
                   ELSE hands[current_player]
           played == AsBuilt(Top(discard'))
       IN  /\ \/ discard' = discard
              \/ /\ PlayedOne
                 /\ skip = 0
                 /\ Legal(played, held, Top(discard))
                 /\ SameCards(Append(hands'[current_player], played), held)
                 /\ Len(deck') < Len(deck) => played = Top(deck)
           /\ (skip = 0 /\ card_number' # <<>> /\ card_number'[1] # 0 /\ error' = "none")
                => PlayedOne]_vars

\* a card chosen from a hand of two was played on a top of another colour
C24_Witness ==
  /\ event = "played" /\ card_number # <<>> /\ card_number[1] # 0
  /\ Len(discard) = Len(MidDiscard) + 1
  /\ Top(discard).colour # discard[Len(discard) - 1].colour

\* a card drawn was played
C24_WitnessDrawn ==
  /\ event = "played" /\ card_number = <<0>>
  /\ Len(discard) = Len(MidDiscard) + 1

====
